---- MODULE Spec2Model ----
(***************************************************************************)
(* A model of src/src/actions.js (bunsen-core): schema lookup              *)
(* (schemaFromRef / getSchema / findSchema), default synthesis             *)
(* (getDefaults), the value merge policy (getDefaultedValue) and the       *)
(* validate thunk with its promise join.                                   *)
(*                                                                         *)
(* JavaScript values are tagged records:                                   *)
(*   Undefined, Null, Str(<<chars>>), Obj(key -> value).                   *)
(* A string is the sequence of its characters so that String.split can be  *)
(* computed; object keys are TLA+ strings (the characters joined).         *)
(* A schema node is a record holding exactly the fields the JS object      *)
(* has, among type, properties, items, default, ref ("$ref") and           *)
(* definitions; "f \in DOMAIN node" is the JS test node.f !== undefined.   *)
(* A thrown exception is the value TypeError or RangeError.                *)
(***************************************************************************)
EXTENDS Integers, Sequences, FiniteSets, TLC

VARIABLES value, events, passes, call

vars == <<value, events, passes, call>>

-----------------------------------------------------------------------------
(* Bounds *)

\* Depth of the JS call stack available to the getSchema / resolveRef
\* recursion; exhausting it is the engine's RangeError.
MaxStack == 8

\* Number of successive updates (validate thunks) in one behaviour.
MaxPasses == 2

\* Largest number of caller-supplied validators handed to one validate call.
MaxValidators == 2

\* Length of the event log past which no further step is started.
MaxEvents == 14

-----------------------------------------------------------------------------
(* JavaScript values *)

Undefined == [t |-> "undefined"]
Null == [t |-> "null"]
Str(s) == [t |-> "string", v |-> s]
Obj(m) == [t |-> "object", m |-> m]
NoKeys == [k \in {} |-> Undefined]
EmptyObj == Obj(NoKeys)

TypeError == [t |-> "throw", e |-> "TypeError"]
RangeError == [t |-> "throw", e |-> "RangeError"]
IsThrow(x) == x = TypeError \/ x = RangeError

IsStr(v) == "v" \in DOMAIN v
IsObj(v) == "m" \in DOMAIN v

\* JS truthiness of a value: undefined, null and '' are falsy.
Truthy(v) == v # Undefined /\ v # Null /\ v # Str(<<>>)

RECURSIVE Join(_)
\* The TLA+ string spelled by a sequence of characters.
Join(s) == IF Len(s) = 0 THEN "" ELSE Head(s) \o Join(Tail(s))

RECURSIVE Split(_, _)
\* String.prototype.split(sep) for a one-character separator: the segments
\* between separators, ''.split(sep) being [''].
Split(s, sep) ==
  IF Len(s) = 0 THEN << <<>> >>
  ELSE LET rest == Split(Tail(s), sep) IN
       IF Head(s) = sep THEN << <<>> >> \o rest
       ELSE << <<Head(s)>> \o Head(rest) >> \o Tail(rest)

\* Array.prototype.reverse
Reverse(s) == [i \in 1..Len(s) |-> s[Len(s) + 1 - i]]

\* str.split(sep).reverse() with every segment as a key string.
SplitReverse(s, sep) ==
  LET segs == Split(s, sep) IN Reverse([i \in 1..Len(segs) |-> Join(segs[i])])

\* The key a popped stack element denotes: pop() of an empty array is
\* undefined, which indexes an object as the key 'undefined'.
Top(stack) == IF Len(stack) = 0 THEN "undefined" ELSE stack[Len(stack)]
Pop(stack) == IF Len(stack) = 0 THEN stack ELSE SubSeq(stack, 1, Len(stack) - 1)

\* The index keys '0', '1', ... of a string.
IndexOf(s, k) == {i \in 1..Len(s) : ToString(i - 1) = k}

\* value[key] for a JS value that is not undefined or null.
GetKey(v, k) ==
  IF IsObj(v) THEN (IF k \in DOMAIN v.m THEN v.m[k] ELSE Undefined)
  ELSE IF IsStr(v) /\ IndexOf(v.v, k) # {}
       THEN Str(<<v.v[CHOOSE i \in IndexOf(v.v, k) : TRUE]>>)
  ELSE Undefined

\* lodash keysIn(source): the enumerable keys of Object(source).
KeysIn(v) ==
  IF IsObj(v) THEN DOMAIN v.m
  ELSE IF IsStr(v) THEN {ToString(i - 1) : i \in 1..Len(v.v)}
  ELSE {}

\* One source of _.defaults: a key is assigned when the destination does
\* not hold it or holds undefined.
DefaultsFrom(dest, source) ==
  LET missing == {k \in KeysIn(source) :
                    k \notin DOMAIN dest \/ dest[k] = Undefined}
  IN [k \in DOMAIN dest \cup missing |->
        IF k \in missing THEN GetKey(source, k) ELSE dest[k]]

\* _.defaults({}, first, second)
Defaults(first, second) ==
  Obj(DefaultsFrom(DefaultsFrom(NoKeys, first), second))

\* _.isEqual: deep equality of two values.
IsEqual(a, b) == a = b

\* _.get(object, path) as validate uses it: a null path is the key 'null',
\* a string path is split on '.' unless it is a plain property name.
RECURSIVE Walk(_, _)
Walk(v, keys) ==
  IF Len(keys) = 0 THEN v
  ELSE IF v = Undefined \/ v = Null THEN Undefined
  ELSE Walk(GetKey(v, Head(keys)), Tail(keys))

Get(object, path) ==
  IF object = Undefined \/ object = Null THEN Undefined
  ELSE IF path = Null THEN GetKey(object, "null")
  ELSE IF path = Undefined THEN GetKey(object, "undefined")
  ELSE LET segs == Split(path.v, ".") IN
       Walk(object, [i \in 1..Len(segs) |-> Join(segs[i])])

-----------------------------------------------------------------------------
(* Schema lookup *)

EmptyNode == NoKeys

\* The stack argument of findSchema's call getSchema(null, model, resolveRef).
NullStack == <<"(null)">>

HasField(node, f) == f \in DOMAIN node
Field(node, f) == IF f \in DOMAIN node THEN node[f] ELSE Undefined

invalidPath(refPath) == EmptyNode

RECURSIVE schemaFromRef(_, _, _)
RECURSIVE getSchema(_, _, _, _)

\* A resolver that resolves the $ref nodes it produces in turn.
schemaFromRefFollowing(definitions, refPath, fuel) ==
  IF fuel = 0 THEN RangeError
  ELSE IF definitions = Undefined THEN invalidPath(refPath)
  ELSE
    LET pathStack == SplitReverse(refPath, "/")
        afterHash == Pop(pathStack)
        afterDefs == Pop(afterHash)
        rest == Pop(afterDefs)
    IN IF Top(pathStack) # "#" \/ Top(afterHash) # "definitions"
       THEN invalidPath(refPath)
       ELSE getSchema(rest, Field(definitions, Top(afterDefs)), definitions,
                      fuel - 1)

\* resolveRef(refPath, resolveRef) for resolveRef = schemaFromRef(definitions),
\* with `fuel` call frames left.
schemaFromRef(definitions, refPath, fuel) ==
  IF fuel = 0 THEN RangeError
  ELSE IF definitions = Undefined THEN invalidPath(refPath)
  ELSE
    LET pathStack == SplitReverse(refPath, "/")
        afterHash == Pop(pathStack)
        afterDefs == Pop(afterHash)
        rest == Pop(afterDefs)
    IN IF Top(pathStack) # "#" \/ Top(afterHash) # "definitions"
       THEN invalidPath(refPath)
       ELSE LET startingSchema == Field(definitions, Top(afterDefs)) IN
            IF Len(rest) <= 0 THEN startingSchema
            ELSE getSchema(rest, startingSchema, definitions, fuel - 1)

getSchema(pathStack, model, definitions, fuel) ==
  IF fuel = 0 THEN RangeError
  ELSE IF model = Undefined THEN TypeError
  ELSE IF HasField(model, "ref")
       THEN schemaFromRef(definitions, model.ref, fuel - 1)
  ELSE IF pathStack = NullStack THEN TypeError
  ELSE IF Len(pathStack) <= 0 THEN model
  ELSE IF HasField(model, "properties")
       THEN getSchema(Pop(pathStack), Field(model.properties, Top(pathStack)),
                      definitions, fuel - 1)
  ELSE IF HasField(model, "items")
       THEN getSchema(Pop(pathStack), model.items, definitions, fuel - 1)
  ELSE EmptyNode

findSchema(model, path, definitions, fuel) ==
  IF fuel = 0 THEN RangeError
  ELSE IF HasField(model, "ref")
       THEN getSchema(NullStack, model, definitions, fuel - 1)
  ELSE IF path = Null THEN model
  ELSE LET pathStack == IF Truthy(path) THEN SplitReverse(path.v, ".")
                        ELSE <<>>
       IN getSchema(pathStack, model, definitions, fuel - 1)

-----------------------------------------------------------------------------
(* Default synthesis and the value merge policy *)

\* value && value[propName]
ValueAnd(v, propName) == IF Truthy(v) THEN GetKey(v, propName) ELSE v

\* The exception a forIn callback raised, if any child computation threw.
ThrownBy(f) ==
  IF \E p \in DOMAIN f : IsThrow(f[p])
  THEN f[CHOOSE p \in DOMAIN f : IsThrow(f[p])]
  ELSE Undefined

RECURSIVE getDefaults(_, _, _, _, _)
getDefaults(v, path, model, definitions, fuel) ==
  LET schema == findSchema(model, path, definitions, fuel) IN
  IF IsThrow(schema) THEN schema
  ELSE IF schema = Undefined THEN TypeError
  ELSE
    LET schemaDefault == Field(schema, "default") IN
    IF HasField(model, "type") /\ model.type = "object"
    THEN LET props == IF HasField(schema, "properties")
                      THEN schema.properties ELSE NoKeys
             defaults == [propName \in DOMAIN props |->
                            getDefaults(ValueAnd(v, propName), Null,
                                        props[propName], definitions, fuel)]
             subSchemaDefaults ==
               [propName \in {p \in DOMAIN props : defaults[p] # Undefined} |->
                  defaults[propName]]
         IN IF ThrownBy(defaults) # Undefined THEN ThrownBy(defaults)
            ELSE IF DOMAIN subSchemaDefaults # {}
                 THEN Defaults(schemaDefault, Obj(subSchemaDefaults))
            ELSE schemaDefault
    ELSE IF v # Undefined THEN v
    ELSE schemaDefault

isEmptyValue(v) ==
  \/ v = Undefined
  \/ v = Null
  \/ (IsObj(v) /\ DOMAIN v.m = {})

getDefaultedValue(inputValue, previousValue, bunsenId, renderModel, mergeDefaults) ==
  LET isInputValueEmpty == isEmptyValue(inputValue) IN
  IF previousValue # Undefined THEN inputValue
  ELSE
    LET defaultValue == getDefaults(inputValue, bunsenId, renderModel,
                                    Field(renderModel, "definitions"), MaxStack)
        hasDefaults == defaultValue # Undefined
        isUpdatingAll == bunsenId = Null
        shouldApplyDefaults ==
          \/ isInputValueEmpty /\ hasDefaults
          \/ ~isInputValueEmpty /\ hasDefaults /\ isUpdatingAll /\ mergeDefaults
        shouldClear == isInputValueEmpty /\ isUpdatingAll /\ ~hasDefaults
    IN IF IsThrow(defaultValue) THEN defaultValue
       ELSE IF shouldApplyDefaults THEN Defaults(inputValue, defaultValue)
       ELSE IF shouldClear THEN EmptyObj
       ELSE inputValue

-----------------------------------------------------------------------------
(* Inputs: reference strings, models, field paths and document values *)

DefsPrefix == <<"#", "/", "d", "e", "f", "i", "n", "i", "t", "i", "o", "n", "s", "/">>
RefFoo == DefsPrefix \o <<"f", "o", "o">>
RefBar == DefsPrefix \o <<"b", "a", "r">>
RefFooA == RefFoo \o <<"/", "a">>
RefMissing == DefsPrefix \o <<"n", "o">>
RefNoName == <<"#", "/", "d", "e", "f", "i", "n", "i", "t", "i", "o", "n", "s">>
RefNoHash == <<"d", "e", "f", "i", "n", "i", "t", "i", "o", "n", "s", "/", "f", "o", "o">>
RefOther == <<"#", "/", "x", "/", "f", "o", "o">>
RefEmpty == <<>>

\* Well-formed pointers #/definitions/<name> and the malformed ones.
PlainRefs == {RefFoo, RefBar, RefMissing}
MalformedRefs == {RefNoHash, RefOther, RefEmpty, RefNoName}
Refs == PlainRefs \cup MalformedRefs \cup {RefFooA}

Leaf == [type |-> "string"]
LeafD == [type |-> "string", default |-> Str(<<"d">>)]
LeafE == [type |-> "string", default |-> Str(<<"e">>)]
ObjAB == [type |-> "object", properties |-> [a |-> LeafD, b |-> LeafE]]

ModelEmpty == [type |-> "object", properties |-> NoKeys]
ModelA == [type |-> "object", properties |-> [a |-> LeafD]]
ModelNested ==
  [type |-> "object",
   properties |-> [a |-> LeafD,
                   b |-> [type |-> "object", properties |-> [x |-> LeafE]],
                   c |-> Leaf]]
ModelLeaf == LeafD
ModelArray == [type |-> "array", items |-> ObjAB]
ModelRootRef == [ref |-> RefFoo, definitions |-> [foo |-> ObjAB]]
ModelRefs ==
  [type |-> "object",
   properties |-> [a |-> [ref |-> RefFoo], b |-> [ref |-> RefMissing],
                   c |-> [ref |-> RefOther], x |-> [ref |-> RefFooA]],
   definitions |-> [foo |-> ObjAB]]
ModelNoDefs == [type |-> "object", properties |-> [a |-> [ref |-> RefFoo]]]
\* definitions.foo is a $ref to itself
ModelSelf ==
  [type |-> "object",
   properties |-> [a |-> [ref |-> RefFoo], x |-> [ref |-> RefFooA]],
   definitions |-> [foo |-> [ref |-> RefFoo]]]
\* definitions.foo and definitions.bar are each only a $ref to the other
ModelMutual ==
  [type |-> "object", properties |-> [a |-> [ref |-> RefFoo]],
   definitions |-> [foo |-> [ref |-> RefBar], bar |-> [ref |-> RefFoo]]]
\* definitions.foo is a $ref into a sub-path of itself
ModelSelfSeg ==
  [type |-> "object", properties |-> [a |-> [ref |-> RefFooA]],
   definitions |-> [foo |-> [ref |-> RefFooA]]]

PlainCyclicModels == {ModelSelf, ModelMutual}
AcyclicModels ==
  {ModelEmpty, ModelA, ModelNested, ModelLeaf, ModelArray, ModelRootRef,
   ModelRefs, ModelNoDefs}
Models == AcyclicModels \cup PlainCyclicModels \cup {ModelSelfSeg}

PathA == Str(<<"a">>)
PathB == Str(<<"b">>)
Paths ==
  {Null, Str(<<>>), PathA, PathB, Str(<<"c">>), Str(<<"x">>), Str(<<"z">>),
   Str(<<"b", ".", "x">>), Str(<<"a", ".", "x">>), Str(<<"0">>),
   Str(<<"0", ".", "a">>)}

StrX == Str(<<"x">>)
Values ==
  {Undefined, Null, EmptyObj, StrX, Obj([a |-> StrX]), Obj([b |-> EmptyObj])}

NoCall == [op |-> "none"]

-----------------------------------------------------------------------------
(* The functions applied to drawn inputs *)

InitPure ==
  /\ value = EmptyObj
  /\ events = <<>>
  /\ passes = <<>>
  /\ call = NoCall

CallResolveRef ==
  \E model \in Models, refPath \in Refs :
    /\ call = NoCall
    /\ call' = [op |-> "resolveRef", model |-> model, refPath |-> refPath,
                result |-> schemaFromRef(Field(model, "definitions"), refPath,
                                         MaxStack)]
    /\ UNCHANGED <<value, events, passes>>

CallFindSchema ==
  \E model \in Models, path \in Paths :
    /\ call = NoCall
    /\ call' = [op |-> "findSchema", model |-> model, path |-> path,
                result |-> findSchema(model, path, Field(model, "definitions"),
                                      MaxStack)]
    /\ UNCHANGED <<value, events, passes>>

CallGetDefaults ==
  \E v \in Values, model \in Models, path \in Paths :
    /\ call = NoCall
    /\ call' = [op |-> "getDefaults", value |-> v, model |-> model,
                path |-> path,
                result |-> getDefaults(v, path, model,
                                       Field(model, "definitions"), MaxStack)]
    /\ UNCHANGED <<value, events, passes>>

CallGetDefaultedValue ==
  \E inputValue \in Values, previousValue \in {Undefined, Null, StrX},
     bunsenId \in Paths, renderModel \in Models, mergeDefaults \in BOOLEAN :
    /\ call = NoCall
    /\ call' = [op |-> "getDefaultedValue", inputValue |-> inputValue,
                previousValue |-> previousValue, bunsenId |-> bunsenId,
                renderModel |-> renderModel, mergeDefaults |-> mergeDefaults,
                result |-> getDefaultedValue(inputValue, previousValue, bunsenId,
                                             renderModel, mergeDefaults)]
    /\ UNCHANGED <<value, events, passes>>

NextPure ==
  \/ CallFindSchema
  \/ CallResolveRef
  \/ CallGetDefaults
  \/ CallGetDefaultedValue

SpecPure == InitPure /\ [][NextPure]_vars

-----------------------------------------------------------------------------
(* The validate thunk, the store and the promise join *)

CHANGE_VALUE == "CHANGE_VALUE"
VALIDATION_RESOLVED == "VALIDATION_RESOLVED"

changeValue(bunsenId, v) ==
  [type |-> CHANGE_VALUE, bunsenId |-> bunsenId, value |-> v]

\* The report action; its errors index is derived from validationResult by
\* helpers outside this file and is left out.
updateValidationResults(validationResult) ==
  [type |-> VALIDATION_RESOLVED, validationResult |-> validationResult]

\* validateValue(formValue, renderModel): one Validation Result, here one
\* error record naming the validator and the document it was run on.
validateValue(formValue, renderModel) ==
  [errors |-> << [by |-> "validateValue", formValue |-> formValue] >>]

\* What the promise of caller-supplied validator i resolves to when it was
\* invoked with formValue: an object whose value field is its result.
ValidatorSnapshot(i, formValue) ==
  [value |-> [errors |-> << [by |-> ToString(i), formValue |-> formValue] >>]]

RECURSIVE ConcatErrors(_)
ConcatErrors(results) ==
  IF Len(results) = 0 THEN <<>>
  ELSE Head(results).errors \o ConcatErrors(Tail(results))

\* aggregateResults: the errors of all results, in the order of the results.
aggregateResults(results) == [errors |-> ConcatErrors(results)]

RECURSIVE SetPath(_, _, _)
SetPath(doc, keys, v) ==
  IF Len(keys) = 0 THEN v
  ELSE LET m == IF IsObj(doc) THEN doc.m ELSE NoKeys
           k == Head(keys)
           child == IF k \in DOMAIN m THEN m[k] ELSE Undefined
       IN Obj([j \in DOMAIN m \cup {k} |->
                 IF j = k THEN SetPath(child, Tail(keys), v) ELSE m[j]])

\* The store's handling of CHANGE_VALUE: the document with the value set
\* at the path, the whole document for the root path.
reduceChangeValue(doc, action) ==
  IF action.bunsenId = Null THEN action.value
  ELSE LET segs == Split(action.bunsenId.v, ".") IN
       SetPath(doc, [i \in 1..Len(segs) |-> Join(segs[i])], action.value)

\* Events of pass p, in the order the code performs them.
Dispatch(p, action, state) ==
  [pass |-> p, kind |-> "dispatch", action |-> action, state |-> state]
Invoke(p, i, formValue) ==
  [pass |-> p, kind |-> "validator", index |-> i, formValue |-> formValue]

\* dispatchUpdatedResults(dispatch, results) in pass p; the report leaves
\* the document as it is.
dispatchUpdatedResults(p, results, state) ==
  Dispatch(p, updateValidationResults(aggregateResults(results)), state)

\* The document read before the dispatch, used again.
RereadFormValueStale(before, after) == before

\* formValue = getState().value, read again after the CHANGE_VALUE dispatch.
RereadFormValue(before, after) == after

\* The join passed as the parameter all: one that returns the joined promise
\* (as a framework's RSVP.all does), or the parameter's default, Promise.all,
\* which is called at line 242 as a bare function, so without the receiver
\* it constructs the joined promise from, and throws a TypeError.
Joins == {"join", "Promise.all"}

\* The call all(promises) of line 242 in pass p.
CallAll(p, n, all) ==
  IF all = "Promise.all"
  THEN [events |-> << [pass |-> p, kind |-> "all", n |-> n],
                      [pass |-> p, kind |-> "throw"] >>,
        join |-> "threw"]
  ELSE [events |-> << [pass |-> p, kind |-> "all", n |-> n],
                      [pass |-> p, kind |-> "return"] >>,
        join |-> "pending"]

\* The end of the thunk with no bypass of the join for an empty list.
ValidationTailAlwaysJoins(p, formValue, result, n, all) ==
  LET joined == CallAll(p, n, all) IN
  [events |-> [i \in 1..n |-> Invoke(p, i, formValue)] \o joined.events,
   join |-> joined.join]

\* Lines 231-242: invoke every validator, then either report at once and
\* return (no validators) or hand the promises to the join.
ValidationTail(p, formValue, result, n, all) ==
  LET promises == [i \in 1..n |-> Invoke(p, i, formValue)] IN
  IF Len(promises) = 0
  THEN [events |-> << dispatchUpdatedResults(p, <<result>>, formValue),
                      [pass |-> p, kind |-> "return"] >>,
        join |-> "none"]
  ELSE LET joined == CallAll(p, n, all) IN
       [events |-> promises \o joined.events, join |-> joined.join]

\* What is kept of a run of the thunk: the document it found (before), the
\* path, the resolved value and the force flag it ran with, the document it
\* validated, the built-in result and the state of its promises and join.
Pass(status, before, bunsenId, finalValue, forceValidation, n, formValue, result, join) ==
  [status |-> status, before |-> before, bunsenId |-> bunsenId,
   finalValue |-> finalValue, forceValidation |-> forceValidation,
   n |-> n, formValue |-> formValue, result |-> result,
   promises |-> [i \in 1..n |-> "pending"], join |-> join]

\* The thunk validate(...) returns, run to completion.
Validate(bunsenId, inputValue, renderModel, n, all, forceValidation, mergeDefaults) ==
  /\ \E p \in {Len(passes) + 1}, previousValue \in {Get(value, bunsenId)} :
     \E finalValue \in {getDefaultedValue(inputValue, previousValue, bunsenId,
                                          renderModel, mergeDefaults)} :
       IF IsThrow(finalValue)
       THEN /\ value' = value
            /\ events' = Append(events, [pass |-> p, kind |-> "throw"])
            /\ passes' = Append(passes,
                 Pass("threw", value, bunsenId, finalValue, forceValidation,
                      0, value, Undefined, "none"))
       ELSE IF ~forceValidation /\ IsEqual(finalValue, previousValue)
       THEN /\ value' = value
            /\ events' = Append(events, [pass |-> p, kind |-> "return"])
            /\ passes' = Append(passes,
                 Pass("skipped", value, bunsenId, finalValue, forceValidation,
                      0, value, Undefined, "none"))
       ELSE \E action \in {changeValue(bunsenId, finalValue)} :
            \E after \in {reduceChangeValue(value, action)} :
            \E formValue \in {RereadFormValue(value, after)} :
            \E result \in {validateValue(formValue, renderModel)} :
            \E tail \in {ValidationTail(p, formValue, result, n, all)} :
              /\ value' = after
              /\ events' = events
                   \o << Dispatch(p, action, after),
                         [pass |-> p, kind |-> "validateValue",
                          formValue |-> formValue] >>
                   \o tail.events
              /\ passes' = Append(passes,
                   Pass("committed", value, bunsenId, finalValue,
                        forceValidation, n, formValue, result, tail.join))
  /\ UNCHANGED call

AllResolved(p) == \A i \in 1..passes[p].n : passes[p].promises[i] = "resolved"

\* The promise of validator i of pass p resolves.
Resolve(p, i) ==
  /\ passes[p].join = "pending"
  /\ passes[p].promises[i] = "pending"
  /\ passes' = [passes EXCEPT ![p].promises[i] = "resolved"]
  /\ events' = Append(events, [pass |-> p, kind |-> "resolved", index |-> i])
  /\ UNCHANGED <<value, call>>

\* The promise of validator i of pass p rejects: the joined promise rejects
\* and, having no rejection handler, nothing of this file runs.
Reject(p, i) ==
  /\ passes[p].join = "pending"
  /\ passes[p].promises[i] = "pending"
  /\ passes' = [passes EXCEPT ![p].promises[i] = "rejected",
                              ![p].join = "rejected"]
  /\ events' = Append(events, [pass |-> p, kind |-> "rejected", index |-> i])
  /\ UNCHANGED <<value, call>>

\* A join callback that drops the report of a pass that is not the latest.
ThenCallbackLatestOnly(p) ==
  /\ passes[p].join = "pending"
  /\ AllResolved(p)
  /\ passes' = [passes EXCEPT ![p].join = "done"]
  /\ events' = IF p = Len(passes)
               THEN Append(events, dispatchUpdatedResults(p,
                      [i \in 1..passes[p].n |->
                         ValidatorSnapshot(i, passes[p].formValue).value]
                        \o << passes[p].result >>, value))
               ELSE events
  /\ UNCHANGED <<value, call>>

\* A join callback that runs as soon as one promise has resolved, with the
\* results that are there.
ThenCallbackOnFirst(p) ==
  /\ passes[p].join = "pending"
  /\ \E i \in 1..passes[p].n : passes[p].promises[i] = "resolved"
  /\ passes' = [passes EXCEPT ![p].join = "done"]
  /\ events' = Append(events, dispatchUpdatedResults(p,
                  SelectSeq([i \in 1..passes[p].n |->
                               ValidatorSnapshot(i, passes[p].formValue).value],
                            LAMBDA r : \E i \in 1..passes[p].n :
                               /\ passes[p].promises[i] = "resolved"
                               /\ r = ValidatorSnapshot(i, passes[p].formValue).value)
                    \o << passes[p].result >>, value))
  /\ UNCHANGED <<value, call>>

\* Lines 242-247: all(promises) is fulfilled once every promise has
\* resolved, with the snapshots in the order of the promises; the callback
\* maps them to their value, appends the built-in result and reports.
ThenCallback(p) ==
  /\ passes[p].join = "pending"
  /\ AllResolved(p)
  /\ LET snapshots == [i \in 1..passes[p].n |->
                         ValidatorSnapshot(i, passes[p].formValue)]
         results == [i \in 1..Len(snapshots) |-> snapshots[i].value]
                      \o << passes[p].result >>
     IN events' = Append(events, dispatchUpdatedResults(p, results, value))
  /\ passes' = [passes EXCEPT ![p].join = "done"]
  /\ UNCHANGED <<value, call>>

\* Resolution, rejection and completion of the joins in flight.
Settle ==
  \/ \E p \in DOMAIN passes : \E i \in 1..passes[p].n : Resolve(p, i)
  \/ \E p \in DOMAIN passes : \E i \in 1..passes[p].n : Reject(p, i)
  \/ \E p \in DOMAIN passes : ThenCallback(p)

(* One run of the thunk against a store holding any document *)

Docs == {EmptyObj, Obj([a |-> StrX]), Obj([a |-> StrX, b |-> StrX])}
Ids == {Null, PathA, PathB}
Inputs == {Undefined, EmptyObj, StrX, Obj([a |-> StrX])}
RenderModels == {ModelEmpty, ModelA}

Init ==
  /\ value \in Docs
  /\ events = <<>>
  /\ passes = <<>>
  /\ call = NoCall

RunThunk ==
  /\ passes = <<>>
  /\ \E bunsenId \in Ids, inputValue \in Inputs, renderModel \in RenderModels,
        n \in 0..MaxValidators, all \in Joins,
        forceValidation \in BOOLEAN, mergeDefaults \in BOOLEAN :
       Validate(bunsenId, inputValue, renderModel, n, all, forceValidation,
                mergeDefaults)

Next ==
  \/ RunThunk
  \/ Settle

Spec == Init /\ [][Next]_vars

(* Successive updates of one field, each with validators *)

StrY == Str(<<"y">>)

InitRace ==
  /\ value = EmptyObj
  /\ events = <<>>
  /\ passes = <<>>
  /\ call = NoCall

\* The log is kept to MaxEvents entries and the updates to MaxPasses.
Room == Len(events) < MaxEvents

Update ==
  /\ Room
  /\ Len(passes) < MaxPasses
  /\ \E inputValue \in {StrX, StrY}, n \in 1..MaxValidators, all \in Joins,
        forceValidation \in BOOLEAN :
       Validate(PathA, inputValue, ModelA, n, all, forceValidation, FALSE)

NextRace ==
  \/ Update
  \/ \E p \in DOMAIN passes : \E i \in 1..passes[p].n : Room /\ Resolve(p, i)
  \/ \E p \in DOMAIN passes : \E i \in 1..passes[p].n : Room /\ Reject(p, i)
  \/ \E p \in DOMAIN passes : Room /\ ThenCallback(p)

SpecRace == InitRace /\ [][NextRace]_vars

-----------------------------------------------------------------------------
(* Properties of the schema functions, over the calls of SpecPure *)

Definitions(model) == Field(model, "definitions")
IsNode(x) == ~IsThrow(x) /\ x # Undefined
IsObjectNode(g) == HasField(g, "type") /\ g.type = "object"
Present(x) == x # Undefined
IsEmpty(x) == x = Undefined \/ x = Null \/ (IsObj(x) /\ KeysIn(x) = {})

\* inputValue overlaid on defaultValue: the keys of both, the caller's
\* value winning where it supplies one.
Overlay(inputValue, defaultValue) ==
  Obj([k \in KeysIn(inputValue) \cup KeysIn(defaultValue) |->
         IF Present(GetKey(inputValue, k)) THEN GetKey(inputValue, k)
         ELSE GetKey(defaultValue, k)])

\* The decision table of the value merge policy.
MergeTable(inputValue, previousValue, path, model, mergeDefaults) ==
  LET defaultValue == getDefaults(inputValue, path, model, Definitions(model),
                                  MaxStack)
      root == path = Null
  IN IF Present(previousValue) THEN inputValue
     ELSE IF \/ IsEmpty(inputValue) /\ Present(defaultValue)
             \/ /\ ~IsEmpty(inputValue) /\ Present(defaultValue)
                /\ root /\ mergeDefaults
          THEN Overlay(inputValue, defaultValue)
     ELSE IF IsEmpty(inputValue) /\ root /\ ~Present(defaultValue)
          THEN EmptyObj
     ELSE inputValue

\* C6: for every input getDefaultedValue returns the value the decision
\* table gives (previous value present: the input verbatim; else defaults
\* overlaid, cleared to {} or the input unchanged), and in particular {}
\* for the root path, an empty input and a model without properties, and
\* {a:'d'} for the model whose property a defaults to 'd'.
C6_DecisionTable ==
  call.op = "getDefaultedValue" =>
    /\ ~IsThrow(call.result)
    /\ call.result = MergeTable(call.inputValue, call.previousValue,
                                call.bunsenId, call.renderModel,
                                call.mergeDefaults)
    /\ (/\ call.bunsenId = Null /\ IsEmpty(call.inputValue)
        /\ call.previousValue = Undefined /\ call.renderModel = ModelEmpty)
         => call.result = EmptyObj
    /\ (/\ call.bunsenId = Null /\ IsEmpty(call.inputValue)
        /\ call.previousValue = Undefined /\ call.renderModel = ModelA)
         => call.result = Obj([a |-> Str(<<"d">>)])

\* The decision table on the inputs for which the schema lookup returns.
C6_TableWhereLookupReturns ==
  (call.op = "getDefaultedValue" /\ ~IsThrow(call.result)) =>
    call.result = MergeTable(call.inputValue, call.previousValue,
                             call.bunsenId, call.renderModel,
                             call.mergeDefaults)

\* The definition a well-formed pointer names.
NameOf(refPath) ==
  IF refPath = RefFoo THEN "foo" ELSE IF refPath = RefBar THEN "bar" ELSE "no"

\* The first segment of a non-empty path is a property the node lacks.
UndeclaredProperty(model, path) ==
  /\ path # Null /\ Len(path.v) > 0
  /\ ~HasField(model, "ref") /\ HasField(model, "properties")
  /\ Top(SplitReverse(path.v, ".")) \notin DOMAIN model.properties

\* A non-empty path into a node with no properties, items or $ref.
PastShape(model, path) ==
  /\ path # Null /\ Len(path.v) > 0
  /\ ~HasField(model, "ref") /\ ~HasField(model, "properties")
  /\ ~HasField(model, "items")

\* C7: schema lookup never raises and always returns a Schema Node, which
\* is the empty node for a malformed $ref, a $ref naming an absent
\* definition, a model without definitions table, a path naming an
\* undeclared property and a path descending past the schema's shape.
C7_FailsClosed ==
  /\ call.op \in {"resolveRef", "findSchema"} => IsNode(call.result)
  /\ (/\ call.op = "resolveRef"
      /\ \/ call.refPath \in MalformedRefs
         \/ ~HasField(call.model, "definitions")
         \/ /\ call.refPath \in PlainRefs
            /\ NameOf(call.refPath) \notin DOMAIN call.model.definitions)
       => call.result = EmptyNode
  /\ (/\ call.op = "findSchema"
      /\ \/ UndeclaredProperty(call.model, call.path)
         \/ PastShape(call.model, call.path))
       => call.result = EmptyNode

\* The node findSchema returns for the call's model and path.
Governing == findSchema(call.model, call.path, Definitions(call.model), MaxStack)

\* C8: when the governing node is object-typed, declares no default and
\* each of its properties declares a default, getDefaults of an absent
\* value returns a mapping holding every property's default under its name.
C8_ObjectDefaults ==
  (/\ call.op = "getDefaults" /\ call.value = Undefined
   /\ IsObjectNode(Governing) /\ ~HasField(Governing, "default")
   /\ HasField(Governing, "properties")
   /\ DOMAIN Governing.properties # {}
   /\ \A p \in DOMAIN Governing.properties :
        HasField(Governing.properties[p], "default"))
  => /\ IsObj(call.result)
     /\ \A p \in DOMAIN Governing.properties :
          GetKey(call.result, p) = Governing.properties[p].default

\* C9: when the governing node is not object-typed and declares a default,
\* getDefaults returns that default for an absent value and the value
\* itself when one is present, whatever the root model's type and the path.
C9_LeafDefaults ==
  (/\ call.op = "getDefaults"
   /\ HasField(Governing, "default") /\ ~IsObjectNode(Governing))
  => call.result = IF call.value = Undefined THEN Governing.default
                   ELSE call.value

SchemaOps == {"findSchema", "resolveRef", "getDefaults"}

\* A call that resolves a reference into the call's model's $ref cycle.
IntoCycle ==
  \/ call.op \in {"findSchema", "getDefaults"} /\ call.path \in {PathA, Str(<<"x">>)}
       /\ HasField(call.model.properties, call.path.v[1])
  \/ call.op = "resolveRef" /\ call.refPath \in {RefFoo, RefBar, RefFooA}
       /\ NameOf(call.refPath) \in DOMAIN call.model.definitions

-----------------------------------------------------------------------------
(* Properties of validate, over the behaviours of Spec *)

IsCommit(e) == e.kind = "dispatch" /\ e.action.type = CHANGE_VALUE
IsReport(e) == e.kind = "dispatch" /\ e.action.type = VALIDATION_RESOLVED
Committed == {p \in DOMAIN passes : passes[p].status = "committed"}

\* The positions in the event log of the events of pass p of a kind.
Commits(p) == {i \in DOMAIN events : events[i].pass = p /\ IsCommit(events[i])}
Reports(p) == {i \in DOMAIN events : events[i].pass = p /\ IsReport(events[i])}
OfKind(p, kind) ==
  {i \in DOMAIN events : events[i].pass = p /\ events[i].kind = kind}
Invocations(p, k) == {i \in OfKind(p, "validator") : events[i].index = k}
Resolutions(p, k) == {i \in OfKind(p, "resolved") : events[i].index = k}

\* The errors a report carries when it aggregates the results of the
\* validators 1..n and then the built-in validator, all run on formValue.
ExpectedErrors(n, formValue) ==
  [i \in 1..n |-> [by |-> ToString(i), formValue |-> formValue]]
    \o << [by |-> "validateValue", formValue |-> formValue] >>

\* C1: in every pass that is not short-circuited, CHANGE_VALUE for the path
\* and the resolved value is dispatched before the built-in validator and
\* every caller-supplied validator is invoked and before any report of the
\* pass, and the validators receive the document the store holds after
\* that dispatch.
C1_CommitBeforeValidation ==
  \A p \in Committed :
    /\ Cardinality(Commits(p)) = 1
    /\ \A c \in Commits(p) :
         /\ events[c].action = changeValue(passes[p].bunsenId,
                                           passes[p].finalValue)
         /\ OfKind(p, "validateValue") # {}
         /\ \A k \in 1..passes[p].n : Invocations(p, k) # {}
         /\ \A i \in OfKind(p, "validateValue") \cup OfKind(p, "validator") :
              i > c /\ events[i].formValue = events[c].state
         /\ \A r \in Reports(p) : r > c

\* A pass with validators has committed a document that differs from the
\* one it found, and has reported.
C1_Witness ==
  \E p \in Committed :
    /\ passes[p].n >= 1 /\ passes[p].join = "done"
    /\ passes[p].formValue # passes[p].before

\* The value committed at a path, the whole document for the root path.
CommittedAt(doc, bunsenId) ==
  IF bunsenId = Null THEN doc ELSE Get(doc, bunsenId)

\* C2: for every path, the root path included, a pass without
\* forceValidation whose resolved value deep-equals the value committed at
\* the path emits no notification and invokes no validator.
C2_UnchangedValueIsSilent ==
  \A p \in DOMAIN passes :
    (/\ ~passes[p].forceValidation
     /\ IsEqual(passes[p].finalValue,
                CommittedAt(passes[p].before, passes[p].bunsenId)))
    => /\ OfKind(p, "dispatch") = {}
       /\ OfKind(p, "validateValue") = {}
       /\ OfKind(p, "validator") = {}

\* The same for the paths below the root.
C2_UnchangedFieldIsSilent ==
  \A p \in DOMAIN passes :
    (/\ ~passes[p].forceValidation /\ passes[p].bunsenId # Null
     /\ IsEqual(passes[p].finalValue,
                CommittedAt(passes[p].before, passes[p].bunsenId)))
    => /\ OfKind(p, "dispatch") = {}
       /\ OfKind(p, "validateValue") = {}
       /\ OfKind(p, "validator") = {}

\* C3: a pass with no validators emits exactly one report, built from the
\* built-in result alone, before the thunk returns and without calling the
\* join.
C3_ZeroValidators ==
  \A p \in Committed :
    passes[p].n = 0 =>
      /\ Cardinality(Reports(p)) = 1
      /\ OfKind(p, "all") = {}
      /\ \A r \in Reports(p) :
           /\ events[r].action.validationResult
                = aggregateResults(<<passes[p].result>>)
           /\ events[r].action.validationResult.errors
                = ExpectedErrors(0, passes[p].formValue)
           /\ \A e \in OfKind(p, "return") : r < e

\* A pass with no validators has committed and returned.
C3_Witness == \E p \in Committed : passes[p].n = 0 /\ OfKind(p, "return") # {}

\* The document the latest CHANGE_VALUE dispatch left in the store.
LastCommitted ==
  LET commits == {i \in DOMAIN events : IsCommit(events[i])} IN
  IF commits = {} THEN (IF Len(passes) = 0 THEN value ELSE passes[1].before)
  ELSE events[CHOOSE i \in commits : \A j \in commits : j <= i].state

\* C4: a pass with validators invokes each of them once, all before the
\* join is called; it reports at most once, only after every validator's
\* promise has resolved, with the validators' values in validator order
\* followed by the built-in result; once a promise has rejected it never
\* reports, and the committed document stays.
C4_JoinedReport ==
  /\ value = LastCommitted
  /\ \A p \in Committed :
       passes[p].n >= 1 =>
         /\ Cardinality(OfKind(p, "all")) = 1
         /\ \A k \in 1..passes[p].n :
              /\ Cardinality(Invocations(p, k)) = 1
              /\ \A i \in Invocations(p, k), a \in OfKind(p, "all") : i < a
         /\ Cardinality(Reports(p)) <= 1
         /\ \A r \in Reports(p) :
              /\ \A k \in 1..passes[p].n :
                   \E s \in Resolutions(p, k) : s < r
              /\ \A e \in OfKind(p, "return") : e < r
              /\ events[r].action.validationResult.errors
                   = ExpectedErrors(passes[p].n, passes[p].formValue)
         /\ OfKind(p, "rejected") # {} => Reports(p) = {}

\* A pass whose second validator resolved before its first has reported.
C4_Witness ==
  \E p \in Committed :
    /\ passes[p].n = 2 /\ Reports(p) # {}
    /\ \E s1 \in Resolutions(p, 1), s2 \in Resolutions(p, 2) : s2 < s1

\* A pass has lost a validator to a rejection after committing a change.
C4_RejectedWitness ==
  \E p \in Committed :
    /\ OfKind(p, "rejected") # {}
    /\ passes[p].formValue # passes[p].before
    /\ value = passes[p].formValue

\* C5: no later update cancels a pass: a pass that waits for its validators
\* keeps waiting, is rejected, or completes by dispatching the report on
\* the document it validated, whatever has been committed since.
C5_NoCancellation ==
  [][\A p \in DOMAIN passes :
       passes[p].join = "pending" =>
         \/ passes'[p].join \in {"pending", "rejected"}
         \/ /\ passes'[p].join = "done"
            /\ Len(events') = Len(events) + 1
            /\ events'[Len(events')].pass = p
            /\ IsReport(events'[Len(events')])
            /\ events'[Len(events')].action.validationResult.errors
                 = ExpectedErrors(passes[p].n, passes[p].formValue)]_vars

\* Update 1 then update 2 ran with validators; the report of update 1 came
\* after the report of update 2, so the last report describes the document
\* of update 1 while the store holds that of update 2.
C5_Witness ==
  /\ {1, 2} \subseteq Committed
  /\ passes[1].n >= 1 /\ passes[2].n >= 1
  /\ passes[1].formValue # passes[2].formValue
  /\ value = passes[2].formValue
  /\ \E r1 \in Reports(1), r2 \in Reports(2) :
       /\ r2 < r1
       /\ r1 = Len(events)
       /\ events[r1].action.validationResult.errors
            = ExpectedErrors(passes[1].n, passes[1].formValue)

====
